---- MODULE Spec2Model ----
(***************************************************************************)
(* Payment-reminder reconciliation: the weekly handler                     *)
(* (src/handler/lambda_function.py) and the monthly handler                *)
(* (src/tutor_payments/handler/lambda_function.py).                        *)
(*                                                                         *)
(* One invocation of lambda_handler is a process that walks the entities   *)
(* (sheet rows in the weekly variant, calendars in the monthly variant)    *)
(* and, per entity, calls get_item, put_item, messages.create per phone    *)
(* and update_item.  Each external call is one step, so that invocations   *)
(* can overlap, a call can raise, and an invocation can be stopped by the  *)
(* Lambda runtime between two calls.                                       *)
(*                                                                         *)
(* Money is kept exact: amount_due is held in sixtieths of a dollar        *)
(* (minutes * dollars-per-hour), so 90 minutes at 50 is 4500 = 75.00.      *)
(***************************************************************************)
EXTENDS Integers, Sequences, FiniteSets, TLC

\* ---------------------------------------------------------------- bounds
\* Number of invocations started in one behaviour.
MaxStarts == 2
\* Largest total of aggregated minutes tried on the weekly rate policy.
MaxMinutes == 330
\* Last year from which the reference dates of the period resolvers are drawn.
MaxYear == 2024
\* Largest number of events of the first calendar drawn for the aggregation.
MaxEvents == 2

\* ------------------------------------------------------------- constants
MINUTES_PER_HOUR == 60
HTTP_STATUS_OK == 200
HTTP_STATUS_ERROR == 500

Invocations == {"inv1", "inv2"}
Variants == {"weekly", "monthly"}

\* The entities in the order the handler's for loop visits them.
EntityOrder == <<"Algebra", "Geometry">>
Entities == {EntityOrder[k] : k \in 1..Len(EntityOrder)}

Phones == {"p1", "p2"}
NoPhone == ""

\* ------------------------------------------------------------ rate table
TierNames == {"hourly_1_rate", "hourly_2_rate", "hourly_3_rate",
              "hourly_4_rate", "hourly_5_rate"}
RateKeys == TierNames \cup {"standard_hourly_rate"}

\* The rate row used by the driver (the spec's example: standard 40, tier1 50).
SheetRow ==
    [standard_hourly_rate |-> 40, hourly_1_rate |-> 50, hourly_2_rate |-> 45,
     hourly_3_rate |-> 42, hourly_4_rate |-> 38, hourly_5_rate |-> 35]

\* The flat hourly rate of the monthly variant (an SSM parameter).
tutor_salary_rate == 20

\* ----------------------------------------------------------- rate policy
\* Mutant of SelectedRate: the tier bounds taken inclusive.
SelectedRateInclusive(total_minutes) ==
    IF total_minutes <= 2 * MINUTES_PER_HOUR THEN "hourly_1_rate"
    ELSE IF total_minutes <= 3 * MINUTES_PER_HOUR THEN "hourly_2_rate"
    ELSE IF total_minutes <= 4 * MINUTES_PER_HOUR THEN "hourly_3_rate"
    ELSE IF total_minutes <= 5 * MINUTES_PER_HOUR THEN "hourly_4_rate"
    ELSE "hourly_5_rate"

\* The if/elif chain on total_hours = total_minutes / 60.0: the key of the
\* row whose rate is applied.  total_hours < n iff total_minutes < n * 60.
SelectedRate(total_minutes) ==
    IF total_minutes < 2 * MINUTES_PER_HOUR THEN "hourly_1_rate"
    ELSE IF total_minutes < 3 * MINUTES_PER_HOUR THEN "hourly_2_rate"
    ELSE IF total_minutes < 4 * MINUTES_PER_HOUR THEN "hourly_3_rate"
    ELSE IF total_minutes < 5 * MINUTES_PER_HOUR THEN "hourly_4_rate"
    ELSE "hourly_5_rate"

\* amount_due = total_hours * hourly_rate, in sixtieths of a dollar.
WeeklyAmountDue(row, total_minutes) ==
    total_minutes * row[SelectedRate(total_minutes)]

\* amount_due = session_hours * rate + no_show_hours * rate, in sixtieths.
MonthlyAmountDue(session_minutes, no_show_minutes, rate) ==
    (session_minutes * rate) + (no_show_minutes * rate)

\* ------------------------------------------------------------------ state
VARIABLES
    variant,          \* which handler the behaviour runs: "weekly" or "monthly"
    sheet_phones,     \* the phone cells of the rate table, per entity
    ledger,           \* the DynamoDB table: uid -> item (one period, so uid = entity)
    pc,               \* per invocation: the call it is about to make
    idx,              \* per invocation: position of the for loop over the entities
    cur,              \* per invocation: minutes and amount_due of the current entity
    response,         \* per invocation: what get_item returned
    pidx,             \* per invocation: position of the for loop over phone_numbers
    any_sent,         \* per invocation: the any_sent flag
    results,          \* per invocation: the results list
    statusCode,       \* per invocation: statusCode of the last return (0: none yet)
    starts,           \* number of invocations started so far
    delivered,        \* history: successful sends per entity and phone
    attempts,         \* history: phones tried for the current entity, in order
    lookedUp,         \* history: entities whose get_item returned in the current run
    sentIn,           \* history: entities with a successful send in the current run
    wroteIn,          \* history: entities whose item the current run wrote
    notifiedAtStart,  \* history: entities whose item had processed_sms at run start
    sheet_fetch,      \* per invocation: how get_sheet_data ended ("none": not called)
    order,            \* the order in which the for loop visits the entities
    oracle,           \* per entity: the outcomes the external calls are held to
    rate_in,          \* rate policy check: the rate row drawn
    minutes_in,       \* rate policy check: the total minutes drawn
    rate_out,         \* rate policy check: [key, amount_due] computed, or "none"
    today,            \* period resolvers: the date of datetime.now()
    chicago_today,    \* period resolvers: the date of the same instant in America/Chicago
    week_range,       \* period resolvers: what get_previous_week_range returned
    month_range,      \* period resolvers: what get_previous_month_range returned
    calendars,        \* aggregation: the calendars and their events
    valid_event_names, \* aggregation: the event names of the rows of the rate table
    events_out,       \* aggregation: what get_all_calendar_events returned
    next_events_out,  \* aggregation: the same for the period that follows
    month_out         \* aggregation: per calendar, the monthly sums and amount_due

sheetVars == <<variant, sheet_phones, sheet_fetch>>
ordVars == <<order, oracle>>
dateVars == <<today, chicago_today, week_range, month_range>>
aggVars == <<calendars, valid_event_names, events_out, next_events_out, month_out>>
runVars == <<lookedUp, sentIn, wroteIn, notifiedAtStart>>
rateVars == <<rate_in, minutes_in, rate_out>>
vars == <<variant, sheet_phones, ledger, pc, idx, cur, response, pidx,
          any_sent, results, statusCode, starts, delivered, attempts,
          lookedUp, sentIn, wroteIn, notifiedAtStart, sheet_fetch, order, oracle,
          rate_in, minutes_in, rate_out, today, chicago_today, week_range,
          month_range, calendars, valid_event_names, events_out, next_events_out,
          month_out>>

\* ----------------------------------------------------------------- ledger
\* A table slot with no item: get_item's response then has no 'Item'.
NoItem ==
    [present |-> FALSE, minutes |-> 0, no_show_minutes |-> 0,
     amount_due |-> 0, processed_sms |-> FALSE]

\* The Item of put_item: the minutes and amount just computed, processed_sms False.
PendingItem(c) ==
    [present |-> TRUE, minutes |-> c.minutes, no_show_minutes |-> c.no_show_minutes,
     amount_due |-> c.amount_due, processed_sms |-> FALSE]

\* put_item: writes the item whether or not the uid already has one.
put_item(table, uid, item) == [table EXCEPT ![uid] = item]

\* update_item: SET processed_sms = True (creates the item if it is absent).
update_item(table, uid) ==
    [table EXCEPT ![uid].present = TRUE, ![uid].processed_sms = TRUE]

\* 'Item' in response and response['Item']['processed_sms']
AlreadyProcessed(item) == item.present /\ item.processed_sms

\* ------------------------------------------------------------ aggregation
\* What the aggregation yields for one entity.  Weekly: in_events says whether
\* event_name is a key of event_name_to_total_minutes.  Monthly: minutes are
\* the session minutes and no_show_minutes the no-show minutes of the calendar.
NoAggregate ==
    [in_events |-> FALSE, minutes |-> 0, no_show_minutes |-> 0, amount_due |-> 0]

WeeklyAggregates ==
    {[in_events |-> FALSE, minutes |-> 0, no_show_minutes |-> 0]}
    \cup {[in_events |-> TRUE, minutes |-> m, no_show_minutes |-> 0] : m \in {0, 90, 120}}

MonthlyAggregates ==
    {[in_events |-> TRUE, minutes |-> 0, no_show_minutes |-> 0],
     [in_events |-> TRUE, minutes |-> 60, no_show_minutes |-> 30]}

Aggregates(v) == IF v = "weekly" THEN WeeklyAggregates ELSE MonthlyAggregates

\* What the aggregation can yield given how get_sheet_data ended.  Monthly with
\* no rows: valid_event_names is empty, so no event is a session (line 216)
\* and any(...) over no names is false (line 180): both sums are 0.
AggregatesGiven(v, fetch) ==
    IF v = "monthly" /\ fetch # "rows"
    THEN {[in_events |-> TRUE, minutes |-> 0, no_show_minutes |-> 0]}
    ELSE Aggregates(v)

\* The guard of the entity's body: `event_name in event_name_to_total_minutes`
\* (weekly), `session_minutes > 0 or no_show_minutes > 0` (monthly).
Participates(v, a) ==
    IF v = "weekly" THEN a.in_events
    ELSE a.minutes > 0 \/ a.no_show_minutes > 0

AmountDue(v, a) ==
    IF v = "weekly" THEN WeeklyAmountDue(SheetRow, a.minutes)
    ELSE MonthlyAmountDue(a.minutes, a.no_show_minutes, tutor_salary_rate)

Computed(v, a) ==
    [in_events |-> a.in_events, minutes |-> a.minutes,
     no_show_minutes |-> a.no_show_minutes, amount_due |-> AmountDue(v, a)]

\* ------------------------------------------------------------- recipients
RECURSIVE SeqToSet(_)
SeqToSet(s) == IF s = <<>> THEN {} ELSE {Head(s)} \cup SeqToSet(Tail(s))

RECURSIVE NonEmptyOnly(_)
NonEmptyOnly(s) ==
    IF s = <<>> THEN <<>>
    ELSE IF Head(s) = NoPhone THEN NonEmptyOnly(Tail(s))
    ELSE <<Head(s)>> \o NonEmptyOnly(Tail(s))

RECURSIVE Dedup(_)
Dedup(s) ==
    IF s = <<>> THEN <<>>
    ELSE IF Head(s) \in SeqToSet(Tail(s)) THEN Dedup(Tail(s))
    ELSE <<Head(s)>> \o Dedup(Tail(s))

RECURSIVE Flatten(_, _)
Flatten(cells, k) ==
    IF k > Len(EntityOrder) THEN <<>>
    ELSE cells[EntityOrder[k]] \o Flatten(cells, k + 1)

\* phone_numbers of the entity being processed.  Weekly: the row's [phone5],
\* empty cell included.  Monthly: list(set(...)) of the non-empty enabled
\* cells of all rows, the same list for every calendar.
phone_numbers(v, cells, e) ==
    IF v = "weekly" THEN cells[e]
    ELSE Dedup(Flatten([x \in Entities |-> NonEmptyOnly(cells[x])], 1))

\* The sms_sent field of a results entry.
sms_sent(v, phones) ==
    IF v = "weekly" THEN Len(NonEmptyOnly(phones)) ELSE Len(phones)

\* The phone cells the rate table may hold.
WeeklySheets ==
    {[e \in Entities |-> <<IF e = "Algebra" THEN "p1" ELSE g>>] : g \in {NoPhone, "p2"}}
MonthlySheets ==
    {[e \in Entities |-> <<>>],
     [e \in Entities |-> IF e = "Algebra" THEN <<"p1", "p2">> ELSE <<"p1">>]}
Sheets(v) == IF v = "weekly" THEN WeeklySheets ELSE MonthlySheets

\* ------------------------------------------------- outcomes held fixed
\* The outcomes of the external calls made for one entity.  In Spec and
\* SpecSeq every outcome is possible at every call (free); SpecOrd fixes them
\* per entity so that two orders of the loop can be compared.
FreeOutcomes ==
    [free |-> TRUE, agg |-> [in_events |-> FALSE, minutes |-> 0, no_show_minutes |-> 0],
     get |-> TRUE, put |-> TRUE, update |-> TRUE, send |-> [p \in Phones |-> TRUE],
     item0 |-> NoItem]

May(e, call, r) == IF oracle[e].free THEN TRUE ELSE oracle[e][call] = r
MayAggregate(e, a) == IF oracle[e].free THEN TRUE ELSE oracle[e].agg = a
MaySend(e, phone, r) ==
    IF oracle[e].free \/ phone = NoPhone THEN TRUE ELSE oracle[e].send[phone] = r

\* ----------------------------------------------------------------- driver
Entity(i) == order[idx[i]]
PhonesOf(i) == phone_numbers(variant, sheet_phones, Entity(i))

\* The results.append(...) after the try/except of the entity's body.  The
\* entry's minutes and amount_due are those of cur at the append; the handler
\* never reads them back, and the entry keeps the name and sms_sent.
ResultEntry(i, c) ==
    [name |-> Entity(i), sms_sent |-> sms_sent(variant, PhonesOf(i))]

\* Mutant of MarkCondition: update_item whatever any_sent is.
MarkAlways(sent) == TRUE

\* `if any_sent:` before update_item.
MarkCondition(sent) == sent

\* Mutant of SendFailureAborts: the send is not wrapped in its own try/except,
\* so a failed send leaves the loop over phone_numbers.
SendFailureLeavesLoop == TRUE

\* The try/except around messages.create is inside the loop over
\* phone_numbers: a failed send does not leave the loop.
SendFailureAborts == FALSE

\* messages.create to an empty `to` cannot succeed.
SendOutcomes(phone) == IF phone = NoPhone THEN {FALSE} ELSE BOOLEAN

\* Mutant of LedgerFailureAborts: the ledger calls are not wrapped in the
\* try/except of the entity's body, so a failed call reaches the outer except.
LedgerFailureLeavesLoop == TRUE

\* The try/except around get_item, put_item and update_item is inside the loop
\* over the entities: a failed ledger call does not leave the loop.
LedgerFailureAborts == FALSE

\* Mutant of LoopOver: update_item indented into the loop over phone_numbers,
\* so it can run as soon as one send was made.
LoopOverAfterFirst(k, n) == k > 1

\* The loop over phone_numbers has run for every phone: k is the position of
\* the next phone, n the length of phone_numbers.
LoopOver(k, n) == k > n

\* Mutant of FreshAnySent: any_sent assigned once before the loop over the
\* entities instead of once per entity.
CarriedAnySent(prev) == prev

\* `any_sent = False` before the loop over phone_numbers of each entity.
FreshAnySent(prev) == FALSE

\* The loop over the entities moves on: the next entity, or the return.
NextEntity(i) ==
    /\ idx' = [idx EXCEPT ![i] = idx[i] + 1]
    /\ pc' = [pc EXCEPT ![i] = IF idx[i] + 1 > Len(EntityOrder) THEN "return" ELSE "agg"]
    /\ cur' = [cur EXCEPT ![i] = NoAggregate]
    /\ response' = [response EXCEPT ![i] = NoItem]
    /\ pidx' = [pidx EXCEPT ![i] = 1]
    /\ any_sent' = [any_sent EXCEPT ![i] = FreshAnySent(any_sent[i])]
    /\ attempts' = [attempts EXCEPT ![i] = <<>>]

\* The entity's body ends with results.append.
AppendAndNext(i, c) ==
    /\ results' = [results EXCEPT ![i] = Append(results[i], ResultEntry(i, c))]
    /\ NextEntity(i)

\* The invocation is over: its local state is gone.
Forget(i) ==
    /\ pc' = [pc EXCEPT ![i] = "idle"]
    /\ idx' = [idx EXCEPT ![i] = 1]
    /\ cur' = [cur EXCEPT ![i] = NoAggregate]
    /\ response' = [response EXCEPT ![i] = NoItem]
    /\ pidx' = [pidx EXCEPT ![i] = 1]
    /\ any_sent' = [any_sent EXCEPT ![i] = FALSE]
    /\ attempts' = [attempts EXCEPT ![i] = <<>>]
    /\ results' = [results EXCEPT ![i] = <<>>]
    /\ lookedUp' = [lookedUp EXCEPT ![i] = {}]
    /\ sentIn' = [sentIn EXCEPT ![i] = {}]
    /\ wroteIn' = [wroteIn EXCEPT ![i] = {}]
    /\ notifiedAtStart' = [notifiedAtStart EXCEPT ![i] = {}]
    /\ sheet_fetch' = [sheet_fetch EXCEPT ![i] = "none"]

\* A ledger call raised: the except of the entity's body logs, and
\* results.append runs.
LedgerFailure(i) ==
    IF LedgerFailureAborts
    THEN /\ statusCode' = [statusCode EXCEPT ![i] = HTTP_STATUS_ERROR]
         /\ Forget(i)
    ELSE /\ AppendAndNext(i, cur[i])
         /\ UNCHANGED <<statusCode, sheet_fetch>>
         /\ UNCHANGED runVars

\* Everything a behaviour starts from except the table, the order of the loop
\* and the outcomes held fixed.
InitLocal ==
    /\ variant \in Variants
    /\ sheet_phones \in Sheets(variant)
    /\ pc = [i \in Invocations |-> "idle"]
    /\ idx = [i \in Invocations |-> 1]
    /\ cur = [i \in Invocations |-> NoAggregate]
    /\ response = [i \in Invocations |-> NoItem]
    /\ pidx = [i \in Invocations |-> 1]
    /\ any_sent = [i \in Invocations |-> FALSE]
    /\ results = [i \in Invocations |-> <<>>]
    /\ statusCode = [i \in Invocations |-> 0]
    /\ starts = 0
    /\ delivered = [e \in Entities |-> [p \in Phones |-> 0]]
    /\ attempts = [i \in Invocations |-> <<>>]
    /\ lookedUp = [i \in Invocations |-> {}]
    /\ sentIn = [i \in Invocations |-> {}]
    /\ wroteIn = [i \in Invocations |-> {}]
    /\ notifiedAtStart = [i \in Invocations |-> {}]
    /\ sheet_fetch = [i \in Invocations |-> "none"]
    /\ rate_in = SheetRow
    /\ minutes_in = 0
    /\ rate_out = [key |-> "none", amount_due |-> 0]
    /\ today = [y |-> 0, m |-> 0, d |-> 0]
    /\ chicago_today = [y |-> 0, m |-> 0, d |-> 0]
    /\ week_range = <<>>
    /\ month_range = <<>>
    /\ calendars = <<>>
    /\ valid_event_names = {<<"Algebra">>, <<"Geometry">>}
    /\ events_out = [done |-> FALSE, events |-> <<>>]
    /\ next_events_out = [done |-> FALSE, events |-> <<>>]
    /\ month_out = <<>>

Init ==
    /\ InitLocal
    /\ ledger = [e \in Entities |-> NoItem]
    /\ order = EntityOrder
    /\ oracle = [e \in Entities |-> FreeOutcomes]

\* lambda_handler is invoked and everything before the loop succeeds;
\* get_sheet_data returned the rows of the sheet.
Start(i) ==
    /\ pc[i] = "idle"
    /\ starts < MaxStarts
    /\ starts' = starts + 1
    /\ pc' = [pc EXCEPT ![i] = "agg"]
    /\ statusCode' = [statusCode EXCEPT ![i] = 0]
    /\ notifiedAtStart' =
           [notifiedAtStart EXCEPT ![i] = {e \in Entities : AlreadyProcessed(ledger[e])}]
    /\ sheet_fetch' = [sheet_fetch EXCEPT ![i] = "rows"]
    /\ UNCHANGED <<ledger, idx, cur, response, pidx, any_sent, results, delivered,
                   attempts, lookedUp, sentIn, wroteIn>>
    /\ UNCHANGED <<variant, sheet_phones, rateVars, ordVars, dateVars, aggVars>>

\* lambda_handler is invoked and get_sheet_data returns []: the request for
\* the values raised inside its try, a row failed to parse, or the sheet
\* has no usable row.  Weekly: the loop over sheet_data has nothing to visit.
\* Monthly: the loop is over the calendars, with no valid_event_names and no
\* phone_numbers.
StartNoRows(i) ==
    /\ pc[i] = "idle"
    /\ starts < MaxStarts
    /\ starts' = starts + 1
    /\ pc' = [pc EXCEPT ![i] = IF variant = "weekly" THEN "return" ELSE "agg"]
    /\ statusCode' = [statusCode EXCEPT ![i] = 0]
    /\ notifiedAtStart' =
           [notifiedAtStart EXCEPT ![i] = {e \in Entities : AlreadyProcessed(ledger[e])}]
    /\ sheet_fetch' = [sheet_fetch EXCEPT ![i] = "empty"]
    /\ UNCHANGED <<ledger, idx, cur, response, pidx, any_sent, results, delivered,
                   attempts, lookedUp, sentIn, wroteIn>>
    /\ UNCHANGED <<variant, sheet_phones, rateVars, ordVars, dateVars, aggVars>>

\* lambda_handler is invoked and a step before the loop other than
\* get_sheet_data raises (get_secrets, the services, the SSM rate, the
\* calendar list of the monthly handler): the outer except returns 500.
StartFails(i) ==
    /\ pc[i] = "idle"
    /\ starts < MaxStarts
    /\ starts' = starts + 1
    /\ statusCode' = [statusCode EXCEPT ![i] = HTTP_STATUS_ERROR]
    /\ sheet_fetch' = [sheet_fetch EXCEPT ![i] = "none"]
    /\ UNCHANGED <<ledger, pc, idx, cur, response, pidx, any_sent, results, delivered,
                   attempts>>
    /\ UNCHANGED <<variant, sheet_phones, runVars, rateVars, ordVars, dateVars, aggVars>>

\* lambda_handler is invoked and get_sheet_data itself raises.  Only the
\* monthly get_sheet_data can: its two SSM reads (the enabled phone columns
\* and the spreadsheet id) come before its try.  The outer except returns 500.
SheetFetchRaises(i) ==
    /\ variant = "monthly"
    /\ pc[i] = "idle"
    /\ starts < MaxStarts
    /\ starts' = starts + 1
    /\ statusCode' = [statusCode EXCEPT ![i] = HTTP_STATUS_ERROR]
    /\ sheet_fetch' = [sheet_fetch EXCEPT ![i] = "raised"]
    /\ UNCHANGED <<ledger, pc, idx, cur, response, pidx, any_sent, results, delivered,
                   attempts>>
    /\ UNCHANGED <<variant, sheet_phones, runVars, rateVars, ordVars, dateVars, aggVars>>

\* The entity's guard is false for the minutes aggregated for it: the loop
\* moves on without touching anything.
SkipEntity(i) ==
    /\ pc[i] = "agg"
    /\ \E a \in AggregatesGiven(variant, sheet_fetch[i]) :
          /\ MayAggregate(Entity(i), a)
          /\ ~Participates(variant, a)
    /\ NextEntity(i)
    /\ UNCHANGED <<ledger, results, statusCode, starts, delivered>>
    /\ UNCHANGED <<sheetVars, runVars, rateVars, ordVars, dateVars, aggVars>>

\* The entity's guard is true for the minutes aggregated for it: amount_due
\* and uid are computed.  (The weekly handler aggregates before the loop and
\* the monthly one inside it; either way the minutes are what the calendars
\* held when they were read.)
Aggregate(i) ==
    /\ pc[i] = "agg"
    /\ \E a \in AggregatesGiven(variant, sheet_fetch[i]) :
          /\ MayAggregate(Entity(i), a)
          /\ Participates(variant, a)
          /\ cur' = [cur EXCEPT ![i] = Computed(variant, a)]
    /\ pc' = [pc EXCEPT ![i] = "get"]
    /\ UNCHANGED <<ledger, idx, response, pidx, any_sent, results, statusCode, starts,
                   delivered, attempts>>
    /\ UNCHANGED <<sheetVars, runVars, rateVars, ordVars, dateVars, aggVars>>

\* get_item returns.  An item with processed_sms: continue.  Otherwise on to
\* put_item.
GetItem(i) ==
    /\ pc[i] = "get"
    /\ May(Entity(i), "get", TRUE)
    /\ IF AlreadyProcessed(ledger[Entity(i)])
       THEN NextEntity(i)
       ELSE /\ response' = [response EXCEPT ![i] = ledger[Entity(i)]]
            /\ pc' = [pc EXCEPT ![i] = "put"]
            /\ UNCHANGED <<idx, cur, pidx, any_sent, attempts>>
    /\ lookedUp' = [lookedUp EXCEPT ![i] = lookedUp[i] \cup {Entity(i)}]
    /\ UNCHANGED <<ledger, results, statusCode, starts, delivered, sentIn, wroteIn,
                   notifiedAtStart>>
    /\ UNCHANGED <<sheetVars, rateVars, ordVars, dateVars, aggVars>>

\* get_item raises: the except of the entity's body logs, and results.append
\* runs.
GetItemFails(i) ==
    /\ pc[i] = "get"
    /\ May(Entity(i), "get", FALSE)
    /\ LedgerFailure(i)
    /\ UNCHANGED <<ledger, starts, delivered>>
    /\ UNCHANGED <<variant, sheet_phones, rateVars, ordVars, dateVars, aggVars>>

\* put_item succeeds; the loop over phone_numbers begins.
PutItem(i) ==
    /\ pc[i] = "put"
    /\ May(Entity(i), "put", TRUE)
    /\ ledger' = put_item(ledger, Entity(i), PendingItem(cur[i]))
    /\ wroteIn' = [wroteIn EXCEPT ![i] = wroteIn[i] \cup {Entity(i)}]
    /\ pc' = [pc EXCEPT ![i] = "send"]
    /\ UNCHANGED <<idx, cur, response, pidx, any_sent, results, statusCode, starts,
                   delivered, attempts, lookedUp, sentIn, notifiedAtStart>>
    /\ UNCHANGED <<sheetVars, rateVars, ordVars, dateVars, aggVars>>

\* put_item raises.
PutItemFails(i) ==
    /\ pc[i] = "put"
    /\ May(Entity(i), "put", FALSE)
    /\ LedgerFailure(i)
    /\ UNCHANGED <<ledger, starts, delivered>>
    /\ UNCHANGED <<variant, sheet_phones, rateVars, ordVars, dateVars, aggVars>>

\* One pass of the loop over phone_numbers: messages.create succeeds.
SendSMS(i) ==
    /\ pc[i] = "send"
    /\ pidx[i] <= Len(PhonesOf(i))
    /\ TRUE \in SendOutcomes(PhonesOf(i)[pidx[i]])
    /\ MaySend(Entity(i), PhonesOf(i)[pidx[i]], TRUE)
    /\ delivered' = [delivered EXCEPT ![Entity(i)][PhonesOf(i)[pidx[i]]] = @ + 1]
    /\ sentIn' = [sentIn EXCEPT ![i] = sentIn[i] \cup {Entity(i)}]
    /\ any_sent' = [any_sent EXCEPT ![i] = TRUE]
    /\ attempts' = [attempts EXCEPT ![i] = Append(attempts[i], PhonesOf(i)[pidx[i]])]
    /\ pidx' = [pidx EXCEPT ![i] = pidx[i] + 1]
    /\ UNCHANGED <<ledger, pc, idx, cur, response, results, statusCode, starts,
                   lookedUp, wroteIn, notifiedAtStart>>
    /\ UNCHANGED <<sheetVars, rateVars, ordVars, dateVars, aggVars>>

\* One pass of the loop over phone_numbers: messages.create raises.
SendSMSFails(i) ==
    /\ pc[i] = "send"
    /\ pidx[i] <= Len(PhonesOf(i))
    /\ FALSE \in SendOutcomes(PhonesOf(i)[pidx[i]])
    /\ MaySend(Entity(i), PhonesOf(i)[pidx[i]], FALSE)
    /\ IF SendFailureAborts
       THEN AppendAndNext(i, cur[i])
       ELSE /\ pidx' = [pidx EXCEPT ![i] = pidx[i] + 1]
            /\ attempts' =
                   [attempts EXCEPT ![i] = Append(attempts[i], PhonesOf(i)[pidx[i]])]
            /\ UNCHANGED <<pc, idx, cur, response, any_sent, results>>
    /\ UNCHANGED <<ledger, statusCode, starts, delivered>>
    /\ UNCHANGED <<sheetVars, runVars, rateVars, ordVars, dateVars, aggVars>>

\* The loop over phone_numbers is over and any_sent is set: on to update_item.
SendsDoneMark(i) ==
    /\ pc[i] = "send"
    /\ LoopOver(pidx[i], Len(PhonesOf(i)))
    /\ MarkCondition(any_sent[i])
    /\ pc' = [pc EXCEPT ![i] = "update"]
    /\ UNCHANGED <<ledger, idx, cur, response, pidx, any_sent, results, statusCode,
                   starts, delivered, attempts>>
    /\ UNCHANGED <<sheetVars, runVars, rateVars, ordVars, dateVars, aggVars>>

\* The loop over phone_numbers is over and any_sent is not set.
SendsDoneNoMark(i) ==
    /\ pc[i] = "send"
    /\ LoopOver(pidx[i], Len(PhonesOf(i)))
    /\ ~MarkCondition(any_sent[i])
    /\ AppendAndNext(i, cur[i])
    /\ UNCHANGED <<ledger, statusCode, starts, delivered>>
    /\ UNCHANGED <<sheetVars, runVars, rateVars, ordVars, dateVars, aggVars>>

\* update_item succeeds.
UpdateItem(i) ==
    /\ pc[i] = "update"
    /\ May(Entity(i), "update", TRUE)
    /\ ledger' = update_item(ledger, Entity(i))
    /\ wroteIn' = [wroteIn EXCEPT ![i] = wroteIn[i] \cup {Entity(i)}]
    /\ AppendAndNext(i, cur[i])
    /\ UNCHANGED <<statusCode, starts, delivered, lookedUp, sentIn, notifiedAtStart>>
    /\ UNCHANGED <<sheetVars, rateVars, ordVars, dateVars, aggVars>>

\* update_item raises.
UpdateItemFails(i) ==
    /\ pc[i] = "update"
    /\ May(Entity(i), "update", FALSE)
    /\ LedgerFailure(i)
    /\ UNCHANGED <<ledger, starts, delivered>>
    /\ UNCHANGED <<variant, sheet_phones, rateVars, ordVars, dateVars, aggVars>>

\* return {'statusCode': 200, ...}: the results leave with the response.
Return(i) ==
    /\ pc[i] = "return"
    /\ statusCode' = [statusCode EXCEPT ![i] = HTTP_STATUS_OK]
    /\ Forget(i)
    /\ UNCHANGED <<ledger, starts, delivered>>
    /\ UNCHANGED <<variant, sheet_phones, rateVars, ordVars, dateVars, aggVars>>

\* The runtime stops the invocation (its deadline) between two calls: nothing
\* is returned.
Stopped(i) ==
    /\ pc[i] \in {"agg", "get", "put", "send", "update"}
    /\ Forget(i)
    /\ UNCHANGED <<ledger, statusCode, starts, delivered>>
    /\ UNCHANGED <<variant, sheet_phones, rateVars, ordVars, dateVars, aggVars>>

\* The calls of a running invocation.
Run(i) ==
    \/ SkipEntity(i)
    \/ Aggregate(i)
    \/ GetItem(i)
    \/ GetItemFails(i)
    \/ PutItem(i)
    \/ PutItemFails(i)
    \/ SendSMS(i)
    \/ SendSMSFails(i)
    \/ SendsDoneMark(i)
    \/ SendsDoneNoMark(i)
    \/ UpdateItem(i)
    \/ UpdateItemFails(i)
    \/ Return(i)
    \/ Stopped(i)

\* Invocations may overlap: nothing keeps the trigger from firing while an
\* earlier invocation is still running.
Next ==
    \E i \in Invocations :
        Start(i) \/ StartNoRows(i) \/ StartFails(i) \/ SheetFetchRaises(i) \/ Run(i)

Spec == Init /\ [][Next]_vars

\* Invocations one after the other: an invocation starts only when no other
\* is running.
NoneRunning == \A j \in Invocations : pc[j] = "idle"

StartAlone(i) == NoneRunning /\ (Start(i) \/ StartNoRows(i))

NextSeq ==
    \E i \in Invocations :
        StartAlone(i) \/ StartFails(i) \/ SheetFetchRaises(i) \/ Run(i)

SpecSeq == Init /\ [][NextSeq]_vars

\* The statements of lambda_handler itself: every call of a running invocation
\* returns or raises and the interpreter goes on to the next statement.  The
\* deadline of the runtime (Stopped) is not a statement of the handler.
RunToEnd(i) ==
    \/ SkipEntity(i)
    \/ Aggregate(i)
    \/ GetItem(i)
    \/ GetItemFails(i)
    \/ PutItem(i)
    \/ PutItemFails(i)
    \/ SendSMS(i)
    \/ SendSMSFails(i)
    \/ SendsDoneMark(i)
    \/ SendsDoneNoMark(i)
    \/ UpdateItem(i)
    \/ UpdateItemFails(i)
    \/ Return(i)

\* Invocations one after the other, none of them stopped by the runtime.
NextLive ==
    \E i \in Invocations :
        StartAlone(i) \/ StartFails(i) \/ SheetFetchRaises(i) \/ RunToEnd(i)

\* A running handler is not suspended for ever: whenever it has a next
\* statement, it eventually executes one.
SpecLive == Init /\ [][NextLive]_vars /\ \A i \in Invocations : WF_vars(RunToEnd(i))

\* ------------------------------------- one invocation, outcomes held fixed
\* The orders in which the loop can visit the entities: the rows of the sheet
\* (weekly) or the calendars of the list (monthly) in either order.
Orders == {EntityOrder, <<EntityOrder[2], EntityOrder[1]>>}

\* The records an earlier period's invocations can have left under a key.
ItemsFound ==
    {NoItem,
     [present |-> TRUE, minutes |-> 90, no_show_minutes |-> 0, amount_due |-> 4500,
      processed_sms |-> FALSE],
     [present |-> TRUE, minutes |-> 90, no_show_minutes |-> 0, amount_due |-> 4500,
      processed_sms |-> TRUE]}

\* The outcomes of the calls for one entity, as far as the calls are reached:
\* get_item raises; put_item raises; or both return, each send returns or
\* raises and update_item returns or raises.
CallOutcomes ==
    {[get |-> FALSE, put |-> TRUE, update |-> TRUE, send |-> [p \in Phones |-> TRUE]],
     [get |-> TRUE, put |-> FALSE, update |-> TRUE, send |-> [p \in Phones |-> TRUE]]}
    \cup {[get |-> TRUE, put |-> TRUE, update |-> u, send |-> sd] :
              u \in BOOLEAN, sd \in [Phones -> BOOLEAN]}

FixedAggregates(v) ==
    IF v = "weekly"
    THEN {[in_events |-> FALSE, minutes |-> 0, no_show_minutes |-> 0],
          [in_events |-> TRUE, minutes |-> 90, no_show_minutes |-> 0]}
    ELSE MonthlyAggregates

FixedOutcomes(v) ==
    {[free |-> FALSE, agg |-> a, get |-> c.get, put |-> c.put, update |-> c.update,
      send |-> c.send, item0 |-> it] :
        a \in FixedAggregates(v), c \in CallOutcomes, it \in ItemsFound}

InitOrd ==
    /\ InitLocal
    /\ order \in Orders
    /\ oracle \in [Entities -> FixedOutcomes(variant)]
    /\ ledger = [e \in Entities |-> oracle[e].item0]

StartOnce(i) == starts = 0 /\ Start(i)

NextOrd == \E i \in Invocations : StartOnce(i) \/ Run(i)

SpecOrd == InitOrd /\ [][NextOrd]_vars

\* ------------------------------------------------- the rate policy alone
\* Rate rows drawn for the rate policy: the sheet's row and one whose tier
\* rates are all different from it.
RateRows ==
    {SheetRow,
     [standard_hourly_rate |-> 60, hourly_1_rate |-> 30, hourly_2_rate |-> 31,
      hourly_3_rate |-> 32, hourly_4_rate |-> 33, hourly_5_rate |-> 34]}

InitRate ==
    /\ Init
    /\ variant = "weekly"
    /\ sheet_phones["Geometry"] = <<"p2">>

\* A total of minutes and a rate row arrive at the rate policy.
DrawRateInput ==
    /\ rate_out.key = "none"
    /\ minutes_in = 0
    /\ \E m \in 1..MaxMinutes : minutes_in' = m
    /\ \E r \in RateRows : rate_in' = r
    /\ UNCHANGED rate_out
    /\ UNCHANGED <<sheetVars, runVars, ordVars, dateVars, aggVars, ledger, pc, idx, cur, response, pidx,
                   any_sent, results, statusCode, starts, delivered, attempts>>

\* Lines 47-60 of the weekly handler on the drawn input.
ApplyRatePolicy ==
    /\ rate_out.key = "none"
    /\ rate_out' = [key |-> SelectedRate(minutes_in),
                    amount_due |-> WeeklyAmountDue(rate_in, minutes_in)]
    /\ UNCHANGED <<rate_in, minutes_in>>
    /\ UNCHANGED <<sheetVars, runVars, ordVars, dateVars, aggVars, ledger, pc, idx, cur, response, pidx,
                   any_sent, results, statusCode, starts, delivered, attempts>>

NextRate == DrawRateInput \/ ApplyRatePolicy

SpecRate == InitRate /\ [][NextRate]_vars

\* ------------------------------------------------- the period resolvers
\* Dates are records [y, m, d] of the proleptic Gregorian calendar, as
\* datetime holds them; the time of day of datetime.now() is carried through
\* timedelta and replace unchanged and dropped by strftime('%Y-%m-%d').
IsLeap(y) == (y % 4 = 0 /\ y % 100 # 0) \/ y % 400 = 0

DaysInMonth(y, m) ==
    IF m = 2 THEN (IF IsLeap(y) THEN 29 ELSE 28)
    ELSE IF m \in {4, 6, 9, 11} THEN 30
    ELSE 31

RECURSIVE DaysBeforeMonth(_, _)
DaysBeforeMonth(y, m) ==
    IF m = 1 THEN 0 ELSE DaysBeforeMonth(y, m - 1) + DaysInMonth(y, m - 1)

\* date.toordinal(): day 1 is 0001-01-01.
toordinal(dt) ==
    365 * (dt.y - 1) + ((dt.y - 1) \div 4) - ((dt.y - 1) \div 100)
        + ((dt.y - 1) \div 400) + DaysBeforeMonth(dt.y, dt.m) + dt.d

\* date.weekday(): Monday is 0 and Sunday is 6.
weekday(dt) == (toordinal(dt) + 6) % 7

PrevDay(dt) ==
    IF dt.d > 1 THEN [dt EXCEPT !.d = dt.d - 1]
    ELSE IF dt.m > 1 THEN [y |-> dt.y, m |-> dt.m - 1, d |-> DaysInMonth(dt.y, dt.m - 1)]
    ELSE [y |-> dt.y - 1, m |-> 12, d |-> 31]

NextDay(dt) ==
    IF dt.d < DaysInMonth(dt.y, dt.m) THEN [dt EXCEPT !.d = dt.d + 1]
    ELSE IF dt.m < 12 THEN [y |-> dt.y, m |-> dt.m + 1, d |-> 1]
    ELSE [y |-> dt.y + 1, m |-> 1, d |-> 1]

\* dt - timedelta(days=n) and dt + timedelta(days=n).
RECURSIVE MinusDays(_, _)
MinusDays(dt, n) == IF n = 0 THEN dt ELSE MinusDays(PrevDay(dt), n - 1)

RECURSIVE PlusDays(_, _)
PlusDays(dt, n) == IF n = 0 THEN dt ELSE PlusDays(NextDay(dt), n - 1)

\* strftime('%Y-%m-%d'): the ten characters of the text, digits as numbers.
strftime(dt) ==
    <<dt.y \div 1000, (dt.y \div 100) % 10, (dt.y \div 10) % 10, dt.y % 10, "-",
      dt.m \div 10, dt.m % 10, "-", dt.d \div 10, dt.d % 10>>

\* strptime(text, '%Y-%m-%d'), as get_all_calendar_events reads the range back.
strptime(text) ==
    [y |-> 1000 * text[1] + 100 * text[2] + 10 * text[3] + text[4],
     m |-> 10 * text[6] + text[7],
     d |-> 10 * text[9] + text[10]]

\* Mutant of days_since_sunday: the `+ 1` left out, which counts the days
\* since Monday.
days_since_monday(dt) == weekday(dt) % 7

\* days_since_sunday = (today.weekday() + 1) % 7
days_since_sunday(dt) == (weekday(dt) + 1) % 7

get_previous_week_range(now) ==
    LET last_sunday == MinusDays(now, days_since_sunday(now) + 7)
        last_saturday == PlusDays(last_sunday, 6)
    IN  <<strftime(last_sunday), strftime(last_saturday)>>

\* Mutant of first_of_this_month: replace(day=1) left out.
same_day_of_this_month(now) == now

\* first_of_this_month = today.replace(day=1)
first_of_this_month(now) == [now EXCEPT !.d = 1]

get_previous_month_range(now) ==
    LET last_of_previous_month == MinusDays(first_of_this_month(now), 1)
        first_of_previous_month == [last_of_previous_month EXCEPT !.d = 1]
    IN  <<strftime(first_of_previous_month), strftime(last_of_previous_month)>>

\* The reference dates: every day of the years 2023 to MaxYear (2024 is a leap
\* year; January 2023 reaches back into 2022).
ReferenceDates ==
    {[y |-> yy, m |-> mm, d |-> dd] :
        yy \in 2023..MaxYear, mm \in 1..12, dd \in 1..31} \ 
    {dt \in [y : 2023..MaxYear, m : 1..12, d : 1..31] : dt.d > DaysInMonth(dt.y, dt.m)}

\* datetime.now() has no tz argument: it gives the date and time of the
\* instant in the zone of the machine (UTC in the runtime, 5 or 6 hours ahead
\* of Chicago; any zone elsewhere).  The date of the same instant in
\* America/Chicago is that date, the day before it or the day after it.
DrawToday ==
    /\ today.y = 0
    /\ today' \in ReferenceDates
    /\ chicago_today' \in {PrevDay(today'), today', NextDay(today')}
    /\ UNCHANGED <<week_range, month_range>>
    /\ UNCHANGED <<sheetVars, runVars, ordVars, rateVars, aggVars, ledger, pc, idx, cur,
                   response, pidx, any_sent, results, statusCode, starts, delivered,
                   attempts>>

\* The weekly handler resolves its period.
ResolveWeek ==
    /\ today.y # 0
    /\ week_range = <<>>
    /\ week_range' = get_previous_week_range(today)
    /\ UNCHANGED <<today, chicago_today, month_range>>
    /\ UNCHANGED <<sheetVars, runVars, ordVars, rateVars, aggVars, ledger, pc, idx, cur,
                   response, pidx, any_sent, results, statusCode, starts, delivered,
                   attempts>>

\* The monthly handler resolves its period.
ResolveMonth ==
    /\ today.y # 0
    /\ month_range = <<>>
    /\ month_range' = get_previous_month_range(today)
    /\ UNCHANGED <<today, chicago_today, week_range>>
    /\ UNCHANGED <<sheetVars, runVars, ordVars, rateVars, aggVars, ledger, pc, idx, cur,
                   response, pidx, any_sent, results, statusCode, starts, delivered,
                   attempts>>

NextDate == DrawToday \/ ResolveWeek \/ ResolveMonth

SpecDate == InitRate /\ [][NextDate]_vars

\* -------------------------------------------------------- the aggregation
\* Event names are texts, held as sequences of their parts so that `in` on
\* two texts (the one is a substring of the other) can be computed.
NO_SHOW_SEARCH_TERM == <<"(no-show)">>

\* valid_event_names = {row['event_name'] for row in sheet_data}: the names of
\* the rows of the rate table, whatever the sheet holds; a row can be named
\* like a no-show event.
ValidNameSets ==
    {{<<"Algebra">>, <<"Geometry">>},
     {<<"Algebra">>, <<"Geometry">>, <<"Algebra", "(no-show)">>}}

\* a in b for two texts.
IsSubstring(a, b) ==
    \E k \in 0..(Len(b) - Len(a)) : SubSeq(b, k + 1, k + Len(a)) = a

\* The window in seconds from its start: timeMin is 00:00:00 of the first day
\* and timeMax 23:59:59 of the seventh.
timeMin == 0
timeMax == 604799

\* An event as the calendar holds it: the keys it has, its name, its start and
\* end in seconds from timeMin, and whether datetime.fromisoformat accepts
\* the texts of its start and end (it raises on a text it cannot parse).
Ev(keys, name, st, en, parses) ==
    [has |-> keys, summary |-> name, start |-> st, end |-> en, iso |-> parses]

AllKeys == {"summary", "start", "end"}

EventPool ==
    {Ev(AllKeys, <<"Algebra">>, 3600, 5400, TRUE),
     Ev(AllKeys, <<"Algebra">>, 7200, 9900, TRUE),
     Ev(AllKeys, <<"Geometry">>, 100, 190, TRUE),
     Ev(AllKeys, <<"Algebra">>, 700000, 703600, TRUE),
     Ev(AllKeys, <<"Geometry">>, 603000, 606600, TRUE),
     Ev({"start", "end"}, <<>>, 3600, 7200, TRUE),
     Ev({"summary", "start"}, <<"Algebra">>, 3600, 3600, TRUE),
     Ev(AllKeys, <<"Algebra">>, 3600, 7200, FALSE),
     Ev(AllKeys, <<"Algebra", "(no-show)">>, 3600, 5400, TRUE),
     Ev(AllKeys, <<"(no-show)">>, 3600, 5400, TRUE)}

\* The names the totals are asked for.
EventNames == {ev.summary : ev \in EventPool}

RECURSIVE SeqsUpTo(_, _)
SeqsUpTo(S, n) ==
    IF n = 0 THEN {<<>>}
    ELSE SeqsUpTo(S, n - 1)
         \cup {Append(q, x) : q \in {r \in SeqsUpTo(S, n - 1) : Len(r) = n - 1}, x \in S}

\* The calendars drawn: the first holds up to MaxEvents events of the pool,
\* the second one of three lists.  read_ok: events().list().execute()
\* returns (weekly, and the monthly read of the sessions); read2_ok: the
\* monthly read of the no-shows returns.
CalendarInputs ==
    [list_ok : BOOLEAN,
     items : {<<c1, c2>> :
                 c1 \in [events : SeqsUpTo(EventPool, MaxEvents),
                          read_ok : BOOLEAN, read2_ok : BOOLEAN],
                 c2 \in [events : {<<>>,
                                    <<Ev(AllKeys, <<"Algebra">>, 7200, 9900, TRUE)>>,
                                    <<Ev(AllKeys, <<"Geometry">>, 100, 190, TRUE),
                                      Ev(AllKeys, <<"Algebra", "(no-show)">>, 3600, 5400, TRUE)>>},
                          read_ok : BOOLEAN, read2_ok : {TRUE}]}]

\* int(x / 60.0): the quotient truncated towards zero.
IntTrunc(n, d) == IF n >= 0 THEN n \div d ELSE -((-n) \div d)

\* duration_minutes = int((end - start).total_seconds() / 60.0)
duration_minutes(ev) == IntTrunc(ev.end - ev.start, MINUTES_PER_HOUR)

\* events().list(timeMin, timeMax, singleEvents=True): the events of the
\* calendar that end after timeMin and start before timeMax, in their order.
RECURSIVE EventsList(_)
EventsList(evs) ==
    IF evs = <<>> THEN <<>>
    ELSE IF \/ ("start" \in Head(evs).has /\ Head(evs).start >= timeMax)
            \/ ("end" \in Head(evs).has /\ Head(evs).end <= timeMin)
         THEN EventsList(Tail(evs))
         ELSE <<Head(evs)>> \o EventsList(Tail(evs))

\* `'summary' not in event or 'start' not in event or 'end' not in event`
MissingKey(ev) == ev.has # AllKeys

\* events[event_name] += duration_minutes, or = for a new name.
DictAdd(events, name, minutes) ==
    IF name \in DOMAIN events
    THEN [events EXCEPT ![name] = @ + minutes]
    ELSE (name :> minutes) @@ events

\* The loop over the events of one calendar (weekly, lines 182-195), inside the
\* try of the calendar: an event that raises ends the loop, and `events`
\* keeps what the events before it added.
RECURSIVE AddEvents(_, _)
AddEvents(evs, events) ==
    IF evs = <<>> THEN events
    ELSE IF MissingKey(Head(evs)) THEN AddEvents(Tail(evs), events)
    ELSE IF ~Head(evs).iso THEN events
    ELSE AddEvents(Tail(evs),
                   DictAdd(events, Head(evs).summary, duration_minutes(Head(evs))))

\* The loop over the calendars (weekly, lines 170-198).
RECURSIVE AddCalendars(_, _)
AddCalendars(cals, events) ==
    IF cals = <<>> THEN events
    ELSE IF ~Head(cals).read_ok THEN AddCalendars(Tail(cals), events)
    ELSE AddCalendars(Tail(cals), AddEvents(EventsList(Head(cals).events), events))

get_all_calendar_events(input) ==
    IF ~input.list_ok THEN <<>> ELSE AddCalendars(input.items, <<>>)

\* `event_name in valid_event_names`
IsSession(name) == name \in valid_event_names

\* `no_show_search_term in event_name and any(valid_name in event_name ...)`
IsNoShow(name) ==
    /\ IsSubstring(NO_SHOW_SEARCH_TERM, name)
    /\ \E valid_name \in valid_event_names : IsSubstring(valid_name, name)

\* The loop over the events of get_calendar_events_for_month (no_show FALSE)
\* and of get_calendar_no_shows_for_month (no_show TRUE): only an event that
\* matches is parsed; one that raises ends the loop and total_minutes keeps
\* what was added before it.
RECURSIVE AddMatching(_, _, _)
AddMatching(evs, no_show, total_minutes) ==
    IF evs = <<>> THEN total_minutes
    ELSE IF MissingKey(Head(evs)) THEN AddMatching(Tail(evs), no_show, total_minutes)
    ELSE IF ~(IF no_show THEN IsNoShow(Head(evs).summary)
                         ELSE IsSession(Head(evs).summary))
         THEN AddMatching(Tail(evs), no_show, total_minutes)
    ELSE IF ~Head(evs).iso THEN total_minutes
    ELSE AddMatching(Tail(evs), no_show, total_minutes + duration_minutes(Head(evs)))

get_calendar_events_for_month(cal) ==
    IF ~cal.read_ok THEN 0 ELSE AddMatching(EventsList(cal.events), FALSE, 0)

get_calendar_no_shows_for_month(cal) ==
    IF ~cal.read2_ok THEN 0 ELSE AddMatching(EventsList(cal.events), TRUE, 0)

\* Lines 49-56 of the monthly handler for one calendar.
MonthlyTotals(cal) ==
    LET session_minutes == get_calendar_events_for_month(cal)
        no_show_minutes == get_calendar_no_shows_for_month(cal)
    IN  [session_minutes |-> session_minutes,
         no_show_minutes |-> no_show_minutes,
         billed |-> session_minutes > 0 \/ no_show_minutes > 0,
         amount_due |-> MonthlyAmountDue(session_minutes, no_show_minutes,
                                         tutor_salary_rate)]

\* The calendars are what the calendar service holds when the handler runs.
DrawCalendars ==
    /\ calendars = <<>>
    /\ calendars' \in CalendarInputs
    /\ valid_event_names' \in ValidNameSets
    /\ UNCHANGED <<events_out, next_events_out, month_out>>
    /\ UNCHANGED <<sheetVars, runVars, ordVars, rateVars, dateVars, ledger, pc, idx, cur,
                   response, pidx, any_sent, results, statusCode, starts, delivered,
                   attempts>>

\* The weekly handler aggregates (line 30).
AggregateWeek ==
    /\ calendars # <<>>
    /\ ~events_out.done
    /\ events_out' = [done |-> TRUE, events |-> get_all_calendar_events(calendars)]
    /\ UNCHANGED <<calendars, valid_event_names, next_events_out, month_out>>
    /\ UNCHANGED <<sheetVars, runVars, ordVars, rateVars, dateVars, ledger, pc, idx, cur,
                   response, pidx, any_sent, results, statusCode, starts, delivered,
                   attempts>>

\* The length of the period: from 00:00:00 of its first day to 00:00:00 of the
\* first day of the period that follows.
PeriodSeconds == timeMax + 1

\* The event as the invocation for the following period sees it: its times in
\* seconds from that invocation's timeMin.
Later(ev) ==
    [ev EXCEPT !.start = @ - PeriodSeconds, !.end = @ - PeriodSeconds]

\* The calendars as the invocation for the following period sees them.
NextPeriod(input) ==
    [input EXCEPT !.items =
        [k \in DOMAIN @ |->
            [@[k] EXCEPT !.events = [j \in DOMAIN @ |-> Later(@[j])]]]]

\* The weekly handler of the following week aggregates (line 30): the same
\* calendars, the window seven days later.
AggregateNextWeek ==
    /\ events_out.done
    /\ ~next_events_out.done
    /\ next_events_out' =
           [done |-> TRUE, events |-> get_all_calendar_events(NextPeriod(calendars))]
    /\ UNCHANGED <<calendars, valid_event_names, events_out, month_out>>
    /\ UNCHANGED <<sheetVars, runVars, ordVars, rateVars, dateVars, ledger, pc, idx, cur,
                   response, pidx, any_sent, results, statusCode, starts, delivered,
                   attempts>>

\* The monthly handler aggregates calendar by calendar (lines 45-56); it has
\* the list of the calendars.
AggregateMonth ==
    /\ calendars # <<>>
    /\ calendars.list_ok
    /\ month_out = <<>>
    /\ month_out' = [k \in 1..Len(calendars.items) |-> MonthlyTotals(calendars.items[k])]
    /\ UNCHANGED <<calendars, valid_event_names, events_out, next_events_out>>
    /\ UNCHANGED <<sheetVars, runVars, ordVars, rateVars, dateVars, ledger, pc, idx, cur,
                   response, pidx, any_sent, results, statusCode, starts, delivered,
                   attempts>>

NextAgg == DrawCalendars \/ AggregateWeek \/ AggregateNextWeek \/ AggregateMonth

SpecAgg == InitRate /\ [][NextAgg]_vars

\* ------------------------------------------------------------ properties
RECURSIVE Count(_, _)
Count(seq, x) ==
    IF seq = <<>> THEN 0
    ELSE (IF Head(seq) = x THEN 1 ELSE 0) + Count(Tail(seq), x)

ResultNames(rs) == {rs[k].name : k \in 1..Len(rs)}
Recipients(i) == SeqToSet(PhonesOf(i)) \ {NoPhone}
TotalMinutes(c) == c.minutes + c.no_show_minutes
Running(i) == pc[i] # "idle"
\* The step is one of invocation i's own.
StepOf(i) == <<pc[i], idx[i], pidx[i]>>' # <<pc[i], idx[i], pidx[i]>>
\* The loop over phone_numbers of invocation i is over.
SendsDone(i) == pc[i] = "update" \/ (pc[i] = "send" /\ pidx[i] > Len(PhonesOf(i)))

\* C1: for every key and every recipient, over any sequence of invocations
\* (ledger calls failing and invocations stopped included), the recipient is
\* sent the notification for that key at most once.
C1_AtMostOnce ==
    \A e \in Entities : \A p \in Phones : delivered[e][p] <= 1

\* C2: if the ledger holds the entity's record with processed_sms = true when
\* an invocation starts, that invocation sends nothing for the entity, writes
\* nothing under its key and has no results entry for it.
C2_IdempotentOnNotified ==
    \A i \in Invocations : \A e \in notifiedAtStart[i] :
        /\ e \notin sentIn[i]
        /\ e \notin wroteIn[i]
        /\ e \notin ResultNames(results[i])

\* C3: two overlapping invocations that process the same key never both send
\* notifications for that key.
C3_NoDoubleSend ==
    \A i \in Invocations : \A j \in Invocations \ {i} :
        (Running(i) /\ Running(j)) => sentIn[i] \cap sentIn[j] = {}

\* C4: a record has processed_sms = true only if a send for its key succeeded
\* before the flag was set, and the flag is set only by an invocation whose own
\* run had a successful send (never when all its sends failed or it had no
\* recipients).
C4_NotifiedOnlyAfterSend ==
    /\ [](\A e \in Entities :
            ledger[e].processed_sms => \E p \in Phones : delivered[e][p] > 0)
    /\ [][\A e \in Entities :
            (~ledger[e].processed_sms /\ ledger'[e].processed_sms) =>
                \E i \in Invocations :
                    /\ StepOf(i)
                    /\ Entity(i) = e
                    /\ any_sent[i]
                    /\ \E p \in Recipients(i) : Count(attempts[i], p) > 0
                    /\ e \in sentIn[i]]_vars

\* C4 witness: a record is marked although the send to one of the recipients
\* failed every time.
C4_Witness ==
    \E e \in Entities :
        /\ ledger[e].processed_sms
        /\ variant = "monthly"
        /\ delivered[e]["p1"] = 0
        /\ delivered[e]["p2"] > 0

\* C5: once a record has processed_sms = true, no later step of any invocation
\* changes it.
C5_NotifiedImmutable ==
    [][\A e \in Entities :
          AlreadyProcessed(ledger[e]) => ledger'[e] = ledger[e]]_vars

\* C6: when get_item found a record with processed_sms = false, the
\* notification is re-attempted with the amount stored in that record, and the
\* record's minutes and amount_due stay as they were found.
C6_RetryUsesStoredAmount ==
    \A i \in Invocations :
        (pc[i] \in {"send", "update"} /\ response[i].present
            /\ ~response[i].processed_sms) =>
            /\ cur[i].amount_due = response[i].amount_due
            /\ ledger[Entity(i)].minutes = response[i].minutes
            /\ ledger[Entity(i)].no_show_minutes = response[i].no_show_minutes
            /\ ledger[Entity(i)].amount_due = response[i].amount_due

\* C7: the insert of the pending record never overwrites: when the key already
\* has a record, the put leaves that record as it was.
C7_NoSilentOverwrite ==
    [][\A i \in Invocations :
          (pc[i] = "put" /\ StepOf(i) /\ ledger[Entity(i)].present) =>
              ledger'[Entity(i)] = ledger[Entity(i)]]_vars

\* C8: the rate applied is tier1 below 2 hours, tier2 from 2 to below 3,
\* tier3 from 3 to below 4, tier4 from 4 to below 5 and tier5 from 5 hours on,
\* never the standard rate, and amount_due = hours * that rate (90 minutes at
\* tier1 = 50 is 75.00, i.e. 4500 sixtieths).
C8_TierSelection ==
    rate_out.key # "none" =>
        /\ rate_out.key =
              (CASE minutes_in < 120 -> "hourly_1_rate"
                 [] 120 <= minutes_in /\ minutes_in < 180 -> "hourly_2_rate"
                 [] 180 <= minutes_in /\ minutes_in < 240 -> "hourly_3_rate"
                 [] 240 <= minutes_in /\ minutes_in < 300 -> "hourly_4_rate"
                 [] minutes_in >= 300 -> "hourly_5_rate")
        /\ rate_out.key # "standard_hourly_rate"
        /\ rate_out.amount_due = minutes_in * rate_in[rate_out.key]
        /\ (minutes_in = 90 /\ rate_in.hourly_1_rate = 50) =>
               rate_out.amount_due = 75 * 60

\* C8 witness: exactly 2 hours were rated at tier2 and exactly 5 hours can be.
C8_Witness ==
    /\ minutes_in = 120
    /\ rate_out.key = "hourly_2_rate"
    /\ 300 <= MaxMinutes

\* C9: an entity whose aggregated minutes are zero gets no ledger record, no
\* notification and no results entry.
C9_ZeroActivitySkipped ==
    /\ [](\A e \in Entities : ledger[e].present => TotalMinutes(ledger[e]) > 0)
    /\ [](\A i \in Invocations :
            (pc[i] \in {"send", "update"} /\ attempts[i] # <<>>) =>
                TotalMinutes(cur[i]) > 0)
    /\ [][\A i \in Invocations :
            Len(results'[i]) > Len(results[i]) => TotalMinutes(cur[i]) > 0]_vars

\* C10: for an entity that reaches the send step, every recipient is tried
\* exactly once whatever the other sends did; with a successful send the
\* invocation goes on to update_item, which leaves the record marked; and the
\* results entry reports the full number of recipients.
C10_PerRecipientIsolation ==
    /\ [](\A i \in Invocations :
            SendsDone(i) =>
                /\ \A p \in Recipients(i) : Count(attempts[i], p) = 1
                /\ Len(attempts[i]) = Len(PhonesOf(i)))
    /\ [](\A i \in Invocations :
            pc[i] = "update" =>
                /\ any_sent[i]
                /\ update_item(ledger, Entity(i))[Entity(i)].processed_sms)
    /\ [][\A i \in Invocations :
            /\ (pc[i] = "send" /\ StepOf(i) /\ Running(i)' /\ pc'[i] # "send") =>
                  /\ SendsDone(i)
                  /\ any_sent[i] => pc'[i] = "update"
            /\ (pc[i] \in {"send", "update"} /\ Len(results'[i]) > Len(results[i])) =>
                  /\ SendsDone(i)
                  /\ results'[i][Len(results'[i])].name = Entity(i)
                  /\ results'[i][Len(results'[i])].sms_sent
                         = Cardinality(Recipients(i))]_vars

\* C10 witness: the send to the first recipient failed, the send to the second
\* succeeded, the record is marked and the entry reports both recipients.
C10_Witness ==
    \E i \in Invocations : \E k \in 1..Len(results[i]) :
        /\ results[i][k].sms_sent = 2
        /\ ledger[results[i][k].name].processed_sms
        /\ \E p \in Phones : delivered[results[i][k].name][p] = 0

\* The last entry of a results list.
LastEntry(rs) == rs[Len(rs)]
\* The state an invocation is in when it comes to an entity.
FreshForEntity(i) ==
    /\ cur[i] = NoAggregate
    /\ response[i] = NoItem
    /\ pidx[i] = 1
    /\ ~any_sent[i]
    /\ attempts[i] = <<>>

\* C11: a get_item, put_item or update_item that raises for one entity is
\* swallowed: the invocation never answers 500 once it is in the loop, the
\* step out of the failed call changes no record and no delivery and brings the
\* loop to the next entity in the state in which it comes to any entity (or to
\* the return), and the return answers 200.
C11_LedgerErrorIsolation ==
    /\ [][\A i \in Invocations :
            (statusCode'[i] = HTTP_STATUS_ERROR /\ statusCode[i] # HTTP_STATUS_ERROR)
                => pc[i] = "idle"]_vars
    /\ [][\A i \in Invocations :
            (pc[i] \in {"get", "put", "update"} /\ StepOf(i) /\ ledger' = ledger
                /\ pc'[i] \notin {"put", "send"}) =>
                \/ (~Running(i)' /\ statusCode'[i] = statusCode[i])
                \/ /\ idx'[i] = idx[i] + 1
                   /\ pc'[i] = (IF idx[i] = Len(order) THEN "return" ELSE "agg")
                   /\ FreshForEntity(i)'
                   /\ delivered' = delivered
                   /\ statusCode'[i] = statusCode[i]]_vars
    /\ [][\A i \in Invocations :
            (pc[i] = "return" /\ StepOf(i)) => statusCode'[i] = HTTP_STATUS_OK]_vars

\* C11 witness: the ledger call of the first entity failed before any record
\* was written (it has a results entry and no record), the second entity was
\* then notified and marked, and the invocation is about to return.
C11_Witness ==
    \E i \in Invocations :
        /\ pc[i] = "return"
        /\ ResultNames(results[i]) = Entities
        /\ ~ledger[order[1]].present
        /\ ledger[order[2]].processed_sms
        /\ order[2] \in sentIn[i]

\* C13: in both variants, when get_sheet_data fails or yields no usable row,
\* the invocation processes no entity, writes no record, sends nothing and
\* answers 200 with empty results, not 500.
C13_RateTableFailureDegrades ==
    /\ [](\A i \in Invocations :
            sheet_fetch[i] = "raised" => statusCode[i] = HTTP_STATUS_OK)
    /\ [](\A i \in Invocations :
            sheet_fetch[i] = "empty" =>
                /\ results[i] = <<>>
                /\ wroteIn[i] = {}
                /\ sentIn[i] = {}
                /\ pc[i] \in {"agg", "return"})
    /\ [][\A i \in Invocations :
            (sheet_fetch[i] = "empty" /\ pc[i] = "return" /\ StepOf(i)) =>
                statusCode'[i] = HTTP_STATUS_OK]_vars

\* C13 without the case of get_sheet_data raising: what holds of the code when
\* get_sheet_data returns [].
C13_EmptySheetDegrades ==
    /\ [](\A i \in Invocations :
            sheet_fetch[i] = "empty" =>
                /\ results[i] = <<>>
                /\ wroteIn[i] = {}
                /\ sentIn[i] = {}
                /\ pc[i] \in {"agg", "return"})
    /\ [][\A i \in Invocations :
            (sheet_fetch[i] = "empty" /\ pc[i] = "return" /\ StepOf(i)) =>
                statusCode'[i] = HTTP_STATUS_OK]_vars

\* C19: the sms_sent of every results entry is the number of recipients to
\* which the invocation attempted a send for that entity; an entity whose
\* get_item or put_item failed is not reported with sends attempted.
C19_ResultsReportAttempts ==
    [][\A i \in Invocations :
          Len(results'[i]) > Len(results[i]) =>
              LastEntry(results'[i]).sms_sent
                  = Cardinality(SeqToSet(attempts[i]) \ {NoPhone})]_vars

\* C20: within one invocation and for every key, a send is attempted only
\* after the invocation's own get_item for the key returned and its own
\* put_item of the pending record succeeded; update_item runs only after a
\* send was attempted to every phone of the key; and after a get_item or
\* put_item that failed the invocation attempts no send for the key.
C20_ProtocolOrder ==
    /\ [](\A i \in Invocations :
            attempts[i] # <<>> =>
                (Entity(i) \in lookedUp[i] /\ Entity(i) \in wroteIn[i]))
    /\ [][\A i \in Invocations :
            Len(attempts'[i]) > Len(attempts[i]) =>
                /\ pc[i] = "send"
                /\ Entity(i) \in lookedUp[i]
                /\ Entity(i) \in wroteIn[i]]_vars
    /\ [](\A i \in Invocations :
            pc[i] = "update" => Len(attempts[i]) = Len(PhonesOf(i)))
    /\ [][\A e \in Entities :
            (~ledger[e].processed_sms /\ ledger'[e].processed_sms) =>
                \E i \in Invocations :
                    /\ pc[i] = "update"
                    /\ StepOf(i)
                    /\ Entity(i) = e
                    /\ Len(attempts[i]) = Len(PhonesOf(i))]_vars
    /\ [][\A i \in Invocations :
            \/ (pc[i] = "get" /\ StepOf(i) /\ pc'[i] # "put")
            \/ (pc[i] = "put" /\ StepOf(i) /\ pc'[i] # "send")
            => /\ attempts'[i] = <<>>
               /\ delivered' = delivered
               /\ Running(i)' => idx'[i] = idx[i] + 1]_vars

\* C20 witness: an invocation is at update_item after a send to each of the
\* two phones of a key it looked up and wrote.
C20_Witness ==
    \E i \in Invocations :
        /\ pc[i] = "update"
        /\ Len(attempts[i]) = 2
        /\ Entity(i) \in lookedUp[i] \cap wroteIn[i]

\* ---- what one entity's outcomes give when the entity is taken alone ----
\* The entity's body is entered and get_item returns an item not yet processed
\* and put_item returns: the sends are made.
SendsMadeAlone(e) ==
    /\ Participates(variant, oracle[e].agg)
    /\ oracle[e].get
    /\ ~AlreadyProcessed(oracle[e].item0)
    /\ oracle[e].put
AnySentAlone(e) ==
    \E p \in SeqToSet(phone_numbers(variant, sheet_phones, e)) \ {NoPhone} :
        oracle[e].send[p]
LedgerAlone(e) ==
    IF ~SendsMadeAlone(e) THEN oracle[e].item0
    ELSE [PendingItem(Computed(variant, oracle[e].agg)) EXCEPT
             !.processed_sms = AnySentAlone(e) /\ oracle[e].update]
DeliveredAlone(e) ==
    [p \in Phones |->
        IF /\ SendsMadeAlone(e)
           /\ p \in SeqToSet(phone_numbers(variant, sheet_phones, e))
           /\ oracle[e].send[p]
        THEN Count(phone_numbers(variant, sheet_phones, e), p) ELSE 0]
HasEntryAlone(e) ==
    /\ Participates(variant, oracle[e].agg)
    /\ ~(oracle[e].get /\ AlreadyProcessed(oracle[e].item0))
EntriesAlone ==
    {[name |-> e,
      sms_sent |-> sms_sent(variant, phone_numbers(variant, sheet_phones, e))] :
        e \in {x \in Entities : HasEntryAlone(x)}}

\* C18: whatever the order in which the loop visits the entities, an
\* invocation that reaches its return has left under every key the record, and
\* made for every entity the deliveries and the results entry, that the
\* outcomes of that entity's own calls give when the entity is taken alone:
\* the final ledger, the notifications and the set of results entries are the
\* same for both orders.
C18_OrderIndependence ==
    \A i \in Invocations :
        pc[i] = "return" =>
            /\ \A e \in Entities : ledger[e] = LedgerAlone(e)
            /\ \A e \in Entities : delivered[e] = DeliveredAlone(e)
            /\ {results[i][k] : k \in 1..Len(results[i])} = EntriesAlone
            /\ Len(results[i]) = Cardinality(EntriesAlone)

\* C18 witness: the loop ran in the reverse order; the entity visited first
\* was notified and marked, and the one visited second has its pending record
\* and an entry although none of its sends succeeded.
C18_Witness ==
    \E i \in Invocations :
        /\ pc[i] = "return"
        /\ order = <<EntityOrder[2], EntityOrder[1]>>
        /\ ledger[order[1]].processed_sms
        /\ order[1] \in sentIn[i]
        /\ ledger[order[2]].present
        /\ ~ledger[order[2]].processed_sms
        /\ order[2] \in wroteIn[i]
        /\ Len(results[i]) = 2

\* C14: for every reference date, get_previous_week_range returns a start that
\* is a Sunday and an end that is the Saturday six days later, and the end is
\* the last Saturday strictly before the Sunday that begins the week of the
\* reference date: start <= end < reference date, and the reference date is 1
\* to 7 days after the end.
C14_PreviousWeek ==
    week_range # <<>> =>
        LET start == strptime(week_range[1])
            end == strptime(week_range[2])
            week_begins == toordinal(today) - ((weekday(today) + 1) % 7)
        IN  /\ weekday(start) = 6
            /\ weekday(end) = 5
            /\ toordinal(end) = toordinal(start) + 6
            /\ weekday(MinusDays(today, toordinal(today) - week_begins)) = 6
            /\ toordinal(end) = week_begins - 1
            /\ toordinal(start) <= toordinal(end)
            /\ toordinal(end) < toordinal(today)
            /\ toordinal(today) - toordinal(end) \in 1..7

\* C14 witness: on Saturday 2024-03-02 the period is Sunday 2024-02-18 to
\* Saturday 2024-02-24, across the leap day.
C14_Witness ==
    /\ today = [y |-> 2024, m |-> 3, d |-> 2]
    /\ week_range = << <<2, 0, 2, 4, "-", 0, 2, "-", 1, 8>>,
                       <<2, 0, 2, 4, "-", 0, 2, "-", 2, 4>> >>

\* C15: for every reference date, get_previous_month_range returns as start
\* day 1 of the calendar month before the reference date's month and as end
\* the last day of that month (28, 29, 30 or 31), in the previous year when
\* the reference month is January.
C15_PreviousMonth ==
    month_range # <<>> =>
        LET start == strptime(month_range[1])
            end == strptime(month_range[2])
            py == IF today.m = 1 THEN today.y - 1 ELSE today.y
            pm == IF today.m = 1 THEN 12 ELSE today.m - 1
            last == CASE pm \in {1, 3, 5, 7, 8, 10, 12} -> 31
                      [] pm \in {4, 6, 9, 11} -> 30
                      [] pm = 2 /\ py = 2024 -> 29
                      [] pm = 2 /\ py # 2024 -> 28
        IN  /\ start = [y |-> py, m |-> pm, d |-> 1]
            /\ end = [y |-> py, m |-> pm, d |-> last]
            /\ toordinal(NextDay(end)) = toordinal([today EXCEPT !.d = 1])

\* C15 witness: on 2024-03-31 the period is 2024-02-01 to 2024-02-29, and
\* January 2023 is among the reference months.
C15_Witness ==
    /\ today = [y |-> 2024, m |-> 3, d |-> 31]
    /\ month_range = << <<2, 0, 2, 4, "-", 0, 2, "-", 0, 1>>,
                        <<2, 0, 2, 4, "-", 0, 2, "-", 2, 9>> >>
    /\ [y |-> 2023, m |-> 1, d |-> 31] \in ReferenceDates

\* ---- the totals the events of a calendar give, event by event ----
\* The total of a name in the dict returned (0 for a name that is not a key).
TotalOf(events, name) == IF name \in DOMAIN events THEN events[name] ELSE 0
\* An event that has its name, start and end and whose times can be read.
HasDuration(ev) == ~MissingKey(ev) /\ ev.iso
\* The events of the calendar that lie in the window.
InWindow(cal) == EventsList(cal.events)
RECURSIVE SumNamed(_, _)
SumNamed(evs, name) ==
    IF evs = <<>> THEN 0
    ELSE (IF HasDuration(Head(evs)) /\ Head(evs).summary = name
          THEN duration_minutes(Head(evs)) ELSE 0) + SumNamed(Tail(evs), name)
RECURSIVE SumSessions(_)
SumSessions(evs) ==
    IF evs = <<>> THEN 0
    ELSE (IF HasDuration(Head(evs)) /\ Head(evs).summary \in valid_event_names
          THEN duration_minutes(Head(evs)) ELSE 0) + SumSessions(Tail(evs))
RECURSIVE SumNoShows(_)
SumNoShows(evs) ==
    IF evs = <<>> THEN 0
    ELSE (IF /\ HasDuration(Head(evs))
             /\ IsSubstring(<<"(no-show)">>, Head(evs).summary)
             /\ \E n \in valid_event_names : IsSubstring(n, Head(evs).summary)
          THEN duration_minutes(Head(evs)) ELSE 0) + SumNoShows(Tail(evs))
RECURSIVE SumOverCalendars(_, _, _)
SumOverCalendars(cals, name, counted) ==
    IF cals = <<>> THEN 0
    ELSE (IF Head(cals) \in counted THEN SumNamed(InWindow(Head(cals)), name) ELSE 0)
         + SumOverCalendars(Tail(cals), name, counted)
\* Reading the events of the calendar failed: the request raised, or an event
\* that was read raised.
WeeklyReadFailed(cal) ==
    \/ ~cal.read_ok
    \/ \E k \in 1..Len(InWindow(cal)) :
          ~MissingKey(InWindow(cal)[k]) /\ ~InWindow(cal)[k].iso
SessionReadFailed(cal) ==
    \/ ~cal.read_ok
    \/ \E k \in 1..Len(InWindow(cal)) :
          /\ ~MissingKey(InWindow(cal)[k]) /\ ~InWindow(cal)[k].iso
          /\ InWindow(cal)[k].summary \in valid_event_names
NoShowReadFailed(cal) ==
    \/ ~cal.read2_ok
    \/ \E k \in 1..Len(InWindow(cal)) :
          /\ ~MissingKey(InWindow(cal)[k]) /\ ~InWindow(cal)[k].iso
          /\ IsNoShow(InWindow(cal)[k].summary)
CalendarSet == {calendars.items[k] : k \in 1..Len(calendars.items)}

\* C12: a calendar whose events could not be read contributes zero minutes to
\* every total, nothing of the events read before the failure included, and
\* the other calendars are aggregated in full (the aggregation returns in
\* every case, so no 500 comes of it).
C12_PerSourceIsolation ==
    /\ (events_out.done /\ calendars.list_ok) =>
          \A name \in EventNames :
              TotalOf(events_out.events, name)
                  = SumOverCalendars(calendars.items, name,
                                     {c \in CalendarSet : ~WeeklyReadFailed(c)})
    /\ month_out # <<>> =>
          \A k \in 1..Len(month_out) :
              /\ month_out[k].session_minutes =
                     (IF SessionReadFailed(calendars.items[k]) THEN 0
                      ELSE SumSessions(InWindow(calendars.items[k])))
              /\ month_out[k].no_show_minutes =
                     (IF NoShowReadFailed(calendars.items[k]) THEN 0
                      ELSE SumNoShows(InWindow(calendars.items[k])))

\* C16: for every event name, the total get_all_calendar_events returns is
\* the sum of the minutes of all events of exactly that name that the
\* calendars returned for the window; events without a name, a start or an
\* end add nothing, and an event outside the window adds nothing.
C16_WeeklyAggregation ==
    events_out.done =>
        \A name \in EventNames :
            TotalOf(events_out.events, name)
                = (IF ~calendars.list_ok THEN 0
                   ELSE SumOverCalendars(calendars.items, name,
                                         {c \in CalendarSet : c.read_ok}))

\* C17: for every calendar, session_minutes is the sum of the minutes of its
\* events named exactly as a row of the rate table, no_show_minutes the sum of
\* the minutes of its events whose name contains '(no-show)' and contains a
\* known name, and amount_due = (session_minutes + no_show_minutes) / 60 * the
\* flat rate.
C17_MonthlyAggregation ==
    month_out # <<>> =>
        \A k \in 1..Len(month_out) :
            /\ calendars.items[k].read_ok =>
                  month_out[k].session_minutes = SumSessions(InWindow(calendars.items[k]))
            /\ calendars.items[k].read2_ok =>
                  month_out[k].no_show_minutes = SumNoShows(InWindow(calendars.items[k]))
            /\ month_out[k].amount_due =
                  (month_out[k].session_minutes + month_out[k].no_show_minutes)
                      * tutor_salary_rate

\* C21: an entity with activity whose record is absent or has processed_sms
\* false is re-attempted by every later invocation (an invocation whose
\* get_item and put_item return for it goes on to send to every phone before it
\* leaves the entity), a send that succeeds followed by an update_item that
\* returns leaves the record with processed_sms true, and from then on the
\* record keeps processed_sms true.
C21_RetryUntilNotified ==
    /\ [][\A i \in Invocations :
            (pc[i] = "get" /\ StepOf(i) /\ Running(i)' /\ lookedUp'[i] # lookedUp[i]
                /\ ~AlreadyProcessed(ledger[Entity(i)])) => pc'[i] = "put"]_vars
    /\ [][\A i \in Invocations :
            (pc[i] = "put" /\ StepOf(i) /\ ledger' # ledger) => pc'[i] = "send"]_vars
    /\ [][\A i \in Invocations :
            (pc[i] = "send" /\ StepOf(i) /\ Running(i)' /\ pc'[i] # "send") =>
                Len(attempts[i]) = Len(PhonesOf(i))]_vars
    /\ [][\A i \in Invocations :
            (pc[i] = "update" /\ StepOf(i) /\ ledger' # ledger) =>
                (Entity(i) \in sentIn[i] /\ ledger'[Entity(i)].processed_sms)]_vars
    /\ [][\A e \in Entities :
            ledger[e].processed_sms => ledger'[e].processed_sms]_vars

\* C21 without its last part: the re-attempts alone.
C21_Reattempts ==
    /\ [][\A i \in Invocations :
            (pc[i] = "get" /\ StepOf(i) /\ Running(i)' /\ lookedUp'[i] # lookedUp[i]
                /\ ~AlreadyProcessed(ledger[Entity(i)])) => pc'[i] = "put"]_vars
    /\ [][\A i \in Invocations :
            (pc[i] = "send" /\ StepOf(i) /\ Running(i)' /\ pc'[i] # "send") =>
                Len(attempts[i]) = Len(PhonesOf(i))]_vars

\* C22: every invocation that runs ends, and ends with a response of 200 or
\* 500; it has no response while it runs and exactly one once it is over; the
\* loop visits the entities once, in order; a step of the loop never ends the
\* invocation (nothing escapes); 200 comes from the return after the loop, and
\* 500 only from a step before the loop.
C22_TerminatesWithOneResponse ==
    /\ \A i \in Invocations :
          Running(i) ~> (~Running(i) /\ statusCode[i] \in {HTTP_STATUS_OK, HTTP_STATUS_ERROR})
    /\ [](\A i \in Invocations :
            /\ statusCode[i] \in {0, HTTP_STATUS_OK, HTTP_STATUS_ERROR}
            /\ Running(i) => statusCode[i] = 0)
    /\ [][\A i \in Invocations :
            (Running(i) /\ Running(i)') => idx'[i] \in {idx[i], idx[i] + 1}]_vars
    /\ [][\A i \in Invocations :
            (Running(i) /\ ~Running(i)') =>
                /\ pc[i] = "return"
                /\ idx[i] = (IF sheet_fetch[i] = "empty" /\ variant = "weekly"
                             THEN 1 ELSE Len(order) + 1)
                /\ statusCode'[i] = HTTP_STATUS_OK]_vars
    /\ [][\A i \in Invocations :
            (statusCode'[i] # statusCode[i] /\ statusCode'[i] = HTTP_STATUS_ERROR) =>
                (pc[i] = "idle" /\ pc'[i] = "idle" /\ starts' = starts + 1)]_vars

\* C22 witness: one invocation went through the loop, a ledger call of the
\* first entity having failed and the second entity having been notified, and
\* answered 200; the other failed before the loop and answered 500.
C22_Witness ==
    \E i, j \in Invocations :
        /\ statusCode[i] = HTTP_STATUS_OK
        /\ statusCode[j] = HTTP_STATUS_ERROR
        /\ NoneRunning
        /\ ~ledger[order[1]].present
        /\ ledger[order[2]].processed_sms

\* C23: for every instant, whatever the zone of the machine, the period
\* returned is the previous week (Sunday to Saturday, ending 1 to 7 days before
\* the current date) and the previous month (day 1 to the eve of day 1 of the
\* current month) of the current date in America/Chicago, the zone in which
\* the aggregator places 00:00:00 and 23:59:59 of the window.
C23_OneReferenceTimezone ==
    /\ week_range # <<>> =>
          LET start == strptime(week_range[1])
              end == strptime(week_range[2])
          IN  /\ weekday(start) = 6
              /\ toordinal(end) = toordinal(start) + 6
              /\ toordinal(chicago_today) - toordinal(end) \in 1..7
    /\ month_range # <<>> =>
          LET start == strptime(month_range[1])
              end == strptime(month_range[2])
          IN  /\ start = [end EXCEPT !.d = 1]
              /\ NextDay(end) = [chicago_today EXCEPT !.d = 1]

\* C23 where the machine's date is the date in America/Chicago: the claim
\* holds of those instants.
C23_WhenDatesAgree ==
    today = chicago_today => C23_OneReferenceTimezone

\* The minutes of all the events of the list that have a duration.
RECURSIVE SumAll(_)
SumAll(evs) ==
    IF evs = <<>> THEN 0
    ELSE (IF HasDuration(Head(evs)) THEN duration_minutes(Head(evs)) ELSE 0)
         + SumAll(Tail(evs))

\* C24: for every calendar and every set of names of the rate table, no event
\* adds its minutes to both session_minutes and no_show_minutes: the two sums
\* together are at most the minutes of the events returned for the window, and
\* amount_due is at most what those minutes, counted once, come to.
C24_BucketsDisjoint ==
    month_out # <<>> =>
        \A k \in 1..Len(month_out) :
            /\ month_out[k].session_minutes + month_out[k].no_show_minutes
                   <= SumAll(InWindow(calendars.items[k]))
            /\ month_out[k].amount_due
                   <= MonthlyAmountDue(SumAll(InWindow(calendars.items[k])), 0,
                                       tutor_salary_rate)

\* C24 for the rate tables none of whose names contains the no-show term.
C24_PlainNamesDisjoint ==
    (\A n \in valid_event_names : ~IsSubstring(NO_SHOW_SEARCH_TERM, n))
        => C24_BucketsDisjoint

\* The minutes of all the events of the calendars whose name is `name`,
\* wherever they lie.
RECURSIVE SumEverywhere(_, _)
SumEverywhere(cals, name) ==
    IF cals = <<>> THEN 0
    ELSE SumNamed(Head(cals).events, name) + SumEverywhere(Tail(cals), name)

\* C25: over the invocations for two consecutive periods, every event adds its
\* minutes to the total of at most one of them, an event across the boundary
\* of the two included: for every name the two totals together are at most the
\* minutes of the events of that name.
C25_NoMinuteBilledTwice ==
    (events_out.done /\ next_events_out.done) =>
        \A name \in EventNames :
            TotalOf(events_out.events, name) + TotalOf(next_events_out.events, name)
                <= SumEverywhere(calendars.items, name)

\* C25 for the calendars none of whose events lies across the boundary.
C25_WithinOnePeriod ==
    (calendars # <<>> /\ \A k \in 1..Len(calendars.items) : \A j \in 1..Len(calendars.items[k].events) :
        LET ev == calendars.items[k].events[j]
        IN  ev.end <= PeriodSeconds \/ ev.start >= PeriodSeconds)
        => C25_NoMinuteBilledTwice

====
